---- MODULE Spec2Model ----
(***************************************************************************)
(* Model of the peer supervisor's transition core,                         *)
(* p2p/src/supervisor/protocol.rs: the Protocol struct (connected,         *)
(* stopped, upgraded) and Protocol::transition with its handlers.  Every   *)
(* handler is an operator from the state before the call and the input's   *)
(* payload to the state after the call and the returned Vec<Output>.       *)
(***************************************************************************)
EXTENDS Integers, Sequences, FiniteSets, TLC

\* ---- bounds of the model ------------------------------------------------
NumIds == 2
NumMsgs == 2
NumErrs == 2
NumInfos == 2

Ids == 1..NumIds
Msgs == 1..NumMsgs
Infos == 1..NumInfos

\* eyre::Report values, identified by their message text
Report_msg(text) == text
Reports == {Report_msg("error " \o ToString(n)) : n \in 1..NumErrs}

\* Option<Report>
None == [some |-> FALSE]
Some(r) == [some |-> TRUE, val |-> r]
OptReports == {None} \cup {Some(r) : r \in Reports}
unwrap_or(opt, default) == IF opt.some THEN opt.val ELSE default

Directions == {"Incoming", "Outgoing"}

\* ---- Input, Command -------------------------------------------------------
\* (records list their fields in the one order used throughout the module)
Accepted(id) == [id |-> id, tag |-> "Accepted"]
Connected(id) == [id |-> id, tag |-> "Connected"]
DuplicateConnRejected(id, report) ==
    [id |-> id, tag |-> "DuplicateConnRejected", report |-> report]
Receive(id, msg) == [id |-> id, tag |-> "Receive", msg |-> msg]
Stopped(id, report) == [id |-> id, tag |-> "Stopped", report |-> report]
Upgraded(id) == [id |-> id, tag |-> "Upgraded"]
UpgradeFailed(id, err) == [id |-> id, tag |-> "UpgradeFailed", err |-> err]
Command_Accept == [tag |-> "Command", cmd |-> "Accept"]
Command_Connect(info) == [tag |-> "Command", cmd |-> "Connect", info |-> info]
Command_Disconnect(id) == [id |-> id, tag |-> "Command", cmd |-> "Disconnect"]
Command_Msg(peer_id, msg) ==
    [id |-> peer_id, tag |-> "Command", msg |-> msg, cmd |-> "Msg"]

\* ---- Output: Event and Internal -------------------------------------------
Event_Connected(id, dir) ==
    [id |-> id, tag |-> "Connected", dir |-> dir, kind |-> "Event"]
Event_Message(id, msg) ==
    [id |-> id, tag |-> "Message", msg |-> msg, kind |-> "Event"]
Event_Disconnected(id, report) ==
    [id |-> id, tag |-> "Disconnected", report |-> report, kind |-> "Event"]
Event_Upgraded(id) == [id |-> id, tag |-> "Upgraded", kind |-> "Event"]
Event_UpgradeFailed(id, err) ==
    [id |-> id, tag |-> "UpgradeFailed", err |-> err, kind |-> "Event"]
Internal_Accept == [tag |-> "Accept", kind |-> "Internal"]
Internal_Connect(info) == [tag |-> "Connect", info |-> info, kind |-> "Internal"]
Internal_Stop(id) == [id |-> id, tag |-> "Stop", kind |-> "Internal"]
Internal_Upgrade(id) == [id |-> id, tag |-> "Upgrade", kind |-> "Internal"]
Internal_SendMessage(id, msg) ==
    [id |-> id, tag |-> "SendMessage", msg |-> msg, kind |-> "Internal"]

\* ---- HashMap / HashSet operations ------------------------------------------
\* an insert that writes the value under every key of the map
HashMap_insert_every_key(map, k, v) == [x \in (DOMAIN map) \cup {k} |-> v]

HashMap_insert(map, k, v) ==
    [x \in (DOMAIN map) \cup {k} |-> IF x = k THEN v ELSE map[x]]
HashMap_remove(map, k) == [x \in (DOMAIN map) \ {k} |-> map[x]]
HashSet_insert(set, k) == set \cup {k}
HashSet_remove(set, k) == set \ {k}
HashSet_get(set, k) == IF k \in set THEN Some(k) ELSE None

\* ---- Protocol ---------------------------------------------------------------
\* #[derive(Default)]: three empty collections
Protocol_default ==
    [connected |-> <<>>, stopped |-> {}, upgraded |-> {}]

\* the effect of one call: the Protocol after it and the Vec<Output> returned
Ret(self, out) == [self |-> self, out |-> out]

\* handle_accepted with the two outputs pushed in the other order
handle_accepted_upgrade_first(self, id) ==
    Ret([self EXCEPT !.connected = HashMap_insert(@, id, "Incoming")],
        <<Internal_Upgrade(id), Event_Connected(id, "Incoming")>>)

handle_accepted(self, id) ==
    Ret([self EXCEPT !.connected = HashMap_insert(@, id, "Incoming")],
        <<Event_Connected(id, "Incoming"), Internal_Upgrade(id)>>)

\* handle_connected treating a dialed connection as already upgraded
handle_connected_marks_upgraded(self, id) ==
    Ret([self EXCEPT !.connected = HashMap_insert(@, id, "Outgoing"),
                     !.upgraded = HashSet_insert(@, id)],
        <<Event_Connected(id, "Outgoing"), Internal_Upgrade(id)>>)

\* handle_connected recording the direction of handle_accepted
handle_connected_as_incoming(self, id) ==
    Ret([self EXCEPT !.connected = HashMap_insert(@, id, "Incoming")],
        <<Event_Connected(id, "Outgoing"), Internal_Upgrade(id)>>)

handle_connected(self, id) ==
    Ret([self EXCEPT !.connected = HashMap_insert(@, id, "Outgoing")],
        <<Event_Connected(id, "Outgoing"), Internal_Upgrade(id)>>)

handle_command_accept(self) == Ret(self, <<Internal_Accept>>)

handle_command_connect(self, info) == Ret(self, <<Internal_Connect(info)>>)

\* Command::Disconnect forgetting the peer before the transport confirms
handle_command_disconnect_eager(self, id) ==
    Ret([self EXCEPT !.upgraded = HashSet_remove(@, id)], <<Internal_Stop(id)>>)

handle_command_disconnect(self, id) == Ret(self, <<Internal_Stop(id)>>)

\* Command::Msg looking the peer up in connected instead of upgraded
handle_command_msg_by_connected(self, peer_id, msg) ==
    IF peer_id \in DOMAIN self.connected
    THEN Ret(self, <<Internal_SendMessage(peer_id, msg)>>)
    ELSE Ret(self, <<>>)

\* Command::Msg requiring the peer in upgraded and in connected
handle_command_msg_needs_connected(self, peer_id, msg) ==
    LET found == HashSet_get(self.upgraded, peer_id)
    IN  IF found.some /\ peer_id \in DOMAIN self.connected
        THEN Ret(self, <<Internal_SendMessage(found.val, msg)>>)
        ELSE Ret(self, <<>>)

\* Command::Msg answering a miss with a stop request instead of nothing
handle_command_msg_stop_on_miss(self, peer_id, msg) ==
    LET found == HashSet_get(self.upgraded, peer_id)
    IN  IF found.some
        THEN Ret(self, <<Internal_SendMessage(found.val, msg)>>)
        ELSE Ret(self, <<Internal_Stop(peer_id)>>)

handle_command_msg(self, peer_id, msg) ==
    LET found == HashSet_get(self.upgraded, peer_id)
    IN  IF found.some
        THEN Ret(self, <<Internal_SendMessage(found.val, msg)>>)
        ELSE Ret(self, <<>>)

handle_command(self, command) ==
    CASE command.cmd = "Accept" -> handle_command_accept(self)
      [] command.cmd = "Connect" -> handle_command_connect(self, command.info)
      [] command.cmd = "Disconnect" -> handle_command_disconnect(self, command.id)
      [] command.cmd = "Msg" -> handle_command_msg(self, command.id, command.msg)

\* handle_receive forwarding only what upgraded peers sent
handle_receive_upgraded_only(self, id, msg) ==
    IF id \in self.upgraded
    THEN Ret(self, <<Event_Message(id, msg)>>)
    ELSE Ret(self, <<>>)

handle_receive(self, id, msg) == Ret(self, <<Event_Message(id, msg)>>)

DefaultDisconnectText == "successfully disconected"

\* handle_stopped emptying upgraded instead of removing the one peer
handle_stopped_clears_upgraded(self, id, report) ==
    Ret([self EXCEPT !.upgraded = {},
                     !.stopped = HashSet_insert(@, id)],
        <<Event_Disconnected(id,
            unwrap_or(report, Report_msg(DefaultDisconnectText)))>>)

\* handle_stopped recording the stop without withdrawing the peer from upgraded
handle_stopped_keeps_upgraded(self, id, report) ==
    Ret([self EXCEPT !.stopped = HashSet_insert(@, id)],
        <<Event_Disconnected(id,
            unwrap_or(report, Report_msg(DefaultDisconnectText)))>>)

\* handle_stopped also dropping the raw connection record
handle_stopped_drops_connected(self, id, report) ==
    Ret([self EXCEPT !.upgraded = HashSet_remove(@, id),
                     !.stopped = HashSet_insert(@, id),
                     !.connected = HashMap_remove(@, id)],
        <<Event_Disconnected(id,
            unwrap_or(report, Report_msg(DefaultDisconnectText)))>>)

\* handle_stopped reporting a peer's disconnection only the first time
handle_stopped_reports_once(self, id, report) ==
    Ret([self EXCEPT !.upgraded = HashSet_remove(@, id),
                     !.stopped = HashSet_insert(@, id)],
        IF id \in self.stopped
        THEN <<>>
        ELSE <<Event_Disconnected(id,
                 unwrap_or(report, Report_msg(DefaultDisconnectText)))>>)

handle_stopped(self, id, report) ==
    Ret([self EXCEPT !.upgraded = HashSet_remove(@, id),
                     !.stopped = HashSet_insert(@, id)],
        <<Event_Disconnected(id,
            unwrap_or(report, Report_msg(DefaultDisconnectText)))>>)

\* handle_upgraded clearing the stop marker of a peer that came back
handle_upgraded_clears_stopped(self, id) ==
    Ret([self EXCEPT !.upgraded = HashSet_insert(@, id),
                     !.stopped = HashSet_remove(@, id)],
        <<Event_Upgraded(id)>>)

\* handle_upgraded accepting the upgrade only of a peer recorded in connected
handle_upgraded_if_connected(self, id) ==
    IF id \in DOMAIN self.connected
    THEN Ret([self EXCEPT !.upgraded = HashSet_insert(@, id)],
             <<Event_Upgraded(id)>>)
    ELSE Ret(self, <<>>)

handle_upgraded(self, id) ==
    Ret([self EXCEPT !.upgraded = HashSet_insert(@, id)],
        <<Event_Upgraded(id)>>)

\* handle_upgrade_failed giving up every pending upgrade
handle_upgrade_failed_clears_all(self, id, err) ==
    Ret([self EXCEPT !.connected = <<>>],
        <<Event_UpgradeFailed(id, err)>>)

\* handle_upgrade_failed also withdrawing the peer from upgraded
handle_upgrade_failed_clears_upgraded(self, id, err) ==
    Ret([self EXCEPT !.connected = HashMap_remove(@, id),
                     !.upgraded = HashSet_remove(@, id)],
        <<Event_UpgradeFailed(id, err)>>)

handle_upgrade_failed(self, id, err) ==
    Ret([self EXCEPT !.connected = HashMap_remove(@, id)],
        <<Event_UpgradeFailed(id, err)>>)

\* the match of Protocol::transition over the arms that return
transition(self, in) ==
    CASE in.tag = "Accepted" -> handle_accepted(self, in.id)
      [] in.tag = "Command" -> handle_command(self, in)
      [] in.tag = "Connected" -> handle_connected(self, in.id)
      [] in.tag = "Receive" -> handle_receive(self, in.id, in.msg)
      [] in.tag = "Stopped" -> handle_stopped(self, in.id, in.report)
      [] in.tag = "Upgraded" -> handle_upgraded(self, in.id)
      [] in.tag = "UpgradeFailed" -> handle_upgrade_failed(self, in.id, in.err)

\* ---- state ------------------------------------------------------------------
VARIABLES
    connected,   \* Protocol.connected: HashMap<node::Id, Direction>
    stopped,     \* Protocol.stopped: HashSet<node::Id>
    upgraded,    \* Protocol.upgraded: HashSet<node::Id>
    panicked,    \* TRUE once transition hit todo!()
    input,       \* the Input of the latest call of transition (NoInput before)
    output,      \* the Vec<Output> the latest call returned
    pre,         \* the Protocol at the entry of the latest call
    hist         \* what the input sequence so far says about each peer

vars == <<connected, stopped, upgraded, panicked, input, output, pre, hist>>

NoInput == [tag |-> "NoInput"]

Self == [connected |-> connected, stopped |-> stopped, upgraded |-> upgraded]

\* Bookkeeping over the inputs alone (independent of the Protocol's fields):
\*   live:      ids with an Upgraded input and no Stopped input since
\*   stopping:  ids that were in upgraded when Command::Disconnect(id) was
\*              processed and have had no Stopped input since
\*   repeat:    the latest input equals the one processed just before it
\*   everStopped: ids for which a Stopped input was processed
\*   tracked:   ids with an Accepted or Connected input and no UpgradeFailed
\*              input since
Observe(h, self, prev, in) ==
    LET g == [h EXCEPT !.repeat = (prev = in)]
    IN  CASE in.tag = "Upgraded" -> [g EXCEPT !.live = @ \cup {in.id}]
          [] in.tag = "Stopped" ->
                [g EXCEPT !.live = @ \ {in.id}, !.stopping = @ \ {in.id},
                          !.everStopped = @ \cup {in.id}]
          [] in.tag = "Command" /\ in.cmd = "Disconnect"
                /\ in.id \in self.upgraded ->
                [g EXCEPT !.stopping = @ \cup {in.id}]
          [] in.tag \in {"Accepted", "Connected"} ->
                [g EXCEPT !.tracked = @ \cup {in.id}]
          [] in.tag = "UpgradeFailed" -> [g EXCEPT !.tracked = @ \ {in.id}]
          [] OTHER -> g

Init ==
    /\ connected = Protocol_default.connected
    /\ stopped = Protocol_default.stopped
    /\ upgraded = Protocol_default.upgraded
    /\ panicked = FALSE
    /\ input = NoInput
    /\ output = <<>>
    /\ pre = Protocol_default
    /\ hist = [repeat |-> FALSE, live |-> {}, stopping |-> {},
               everStopped |-> {}, tracked |-> {}]

\* one call of Protocol::transition that returns
Step(in) ==
    /\ ~panicked
    /\ LET r == transition(Self, in)
       IN  /\ connected' = r.self.connected
           /\ stopped' = r.self.stopped
           /\ upgraded' = r.self.upgraded
           /\ output' = r.out
    /\ input' = in
    /\ pre' = Self
    /\ hist' = Observe(hist, Self, input, in)
    /\ UNCHANGED panicked

DoAccepted == \E id \in Ids : Step(Accepted(id))
DoConnected == \E id \in Ids : Step(Connected(id))
\* the Input::Receive arm left unimplemented like DuplicateConnRejected
DoReceive_todo ==
    /\ ~panicked
    /\ \E id \in Ids, msg \in Msgs :
          /\ input' = Receive(id, msg)
          /\ hist' = Observe(hist, Self, input, input')
    /\ panicked' = TRUE
    /\ output' = <<>>
    /\ pre' = Self
    /\ UNCHANGED <<connected, stopped, upgraded>>

DoReceive == \E id \in Ids, msg \in Msgs : Step(Receive(id, msg))
DoStopped == \E id \in Ids, report \in OptReports : Step(Stopped(id, report))
DoUpgraded == \E id \in Ids : Step(Upgraded(id))
DoUpgradeFailed == \E id \in Ids, err \in Reports : Step(UpgradeFailed(id, err))
DoCommandAccept == Step(Command_Accept)
DoCommandConnect == \E info \in Infos : Step(Command_Connect(info))
DoCommandDisconnect == \E id \in Ids : Step(Command_Disconnect(id))
DoCommandMsg == \E id \in Ids, msg \in Msgs : Step(Command_Msg(id, msg))

\* Input::DuplicateConnRejected(_id, _report) => todo!(): the call panics,
\* returns nothing and the Protocol is not touched
DoDuplicateConnRejected ==
    /\ ~panicked
    /\ \E id \in Ids, report \in Reports :
          /\ input' = DuplicateConnRejected(id, report)
          /\ hist' = Observe(hist, Self, input, input')
    /\ panicked' = TRUE
    /\ output' = <<>>
    /\ pre' = Self
    /\ UNCHANGED <<connected, stopped, upgraded>>

Next ==
    \/ DoAccepted
    \/ DoConnected
    \/ DoReceive
    \/ DoStopped
    \/ DoUpgraded
    \/ DoUpgradeFailed
    \/ DoCommandAccept
    \/ DoCommandConnect
    \/ DoCommandDisconnect
    \/ DoCommandMsg
    \/ DoDuplicateConnRejected

Spec == Init /\ [][Next]_vars

TypeOK ==
    /\ DOMAIN connected \subseteq Ids
    /\ \A id \in DOMAIN connected : connected[id] \in Directions
    /\ stopped \subseteq Ids
    /\ upgraded \subseteq Ids
    /\ panicked \in BOOLEAN

\* ---- properties of transition ------------------------------------------------
IsCommandMsg(in) == in.tag = "Command" /\ in.cmd = "Msg"
IsSendMessage(o) == o.kind = "Internal" /\ o.tag = "SendMessage"

\* C1: every SendMessage(id, _) in the returned outputs answers a
\* Command::Msg(id, _) processed with id in upgraded, i.e. after some
\* Upgraded(id) input and with no Stopped(id) input since the latest one.
C1_SendOnlyToUpgraded ==
    \A i \in 1..Len(output) :
        IsSendMessage(output[i]) =>
            /\ IsCommandMsg(input)
            /\ input.id = output[i].id
            /\ output[i].id \in pre.upgraded
            /\ output[i].id \in hist.live

C1_Witness ==
    \E id \in Ids, msg \in Msgs :
        /\ input = Command_Msg(id, msg)
        /\ output = <<Internal_SendMessage(id, msg)>>
        /\ id \in pre.upgraded
        /\ id \in hist.live

\* C2: Accepted(id) leaves connected[id] = Incoming, returns exactly
\* [Event::Connected(id, Incoming), Internal::Upgrade(id)] in that order and
\* changes neither upgraded nor stopped.
C2_Accepted ==
    input.tag = "Accepted" =>
        /\ input.id \in DOMAIN connected
        /\ connected[input.id] = "Incoming"
        /\ output = <<Event_Connected(input.id, "Incoming"),
                      Internal_Upgrade(input.id)>>
        /\ upgraded = pre.upgraded
        /\ stopped = pre.stopped

C2_Witness ==
    /\ input.tag = "Accepted"
    /\ input.id \in DOMAIN pre.connected
    /\ pre.connected[input.id] = "Outgoing"
    /\ pre.upgraded # {}
    /\ pre.stopped # {}

\* C3: Connected(id) leaves connected[id] = Outgoing, returns exactly
\* [Event::Connected(id, Outgoing), Internal::Upgrade(id)] in that order and
\* changes neither upgraded nor stopped.
C3_Connected ==
    input.tag = "Connected" =>
        /\ input.id \in DOMAIN connected
        /\ connected[input.id] = "Outgoing"
        /\ output = <<Event_Connected(input.id, "Outgoing"),
                      Internal_Upgrade(input.id)>>
        /\ upgraded = pre.upgraded
        /\ stopped = pre.stopped

C3_Witness ==
    /\ input.tag = "Connected"
    /\ input.id \in DOMAIN pre.connected
    /\ pre.connected[input.id] = "Incoming"
    /\ pre.upgraded # {}
    /\ pre.stopped # {}

\* C4: Command::Msg(id, payload) processed with id in upgraded returns exactly
\* [Internal::SendMessage(id, payload)] and changes no collection, whether or
\* not id is in connected or in stopped.
C4_MsgToUpgraded ==
    (IsCommandMsg(input) /\ input.id \in pre.upgraded) =>
        /\ output = <<Internal_SendMessage(input.id, input.msg)>>
        /\ Self = pre

C4_Witness ==
    /\ IsCommandMsg(input)
    /\ input.id \in pre.upgraded
    /\ input.id \in pre.stopped
    /\ input.id \notin DOMAIN pre.connected
    /\ output = <<Internal_SendMessage(input.id, input.msg)>>

\* C5: Command::Msg(id, payload) processed with id not in upgraded returns the
\* empty sequence, does not abort, and changes no collection.
C5_MsgToNonUpgraded ==
    (IsCommandMsg(input) /\ input.id \notin pre.upgraded) =>
        /\ output = <<>>
        /\ ~panicked
        /\ Self = pre

C5_Witness ==
    /\ IsCommandMsg(input)
    /\ input.id \notin pre.upgraded
    /\ input.id \in pre.stopped
    /\ input.id \in DOMAIN pre.connected
    /\ output = <<>>

\* C6: Stopped(id, maybe_error) removes id from upgraded, inserts id into
\* stopped, returns exactly one output, an Event::Disconnected(id, _), and
\* leaves the connected mapping unchanged.
C6_Stopped ==
    input.tag = "Stopped" =>
        /\ input.id \notin upgraded
        /\ input.id \in stopped
        /\ Len(output) = 1
        /\ output[1].kind = "Event"
        /\ output[1].tag = "Disconnected"
        /\ output[1].id = input.id
        /\ connected = pre.connected

C6_Witness ==
    /\ input.tag = "Stopped"
    /\ input.id \in pre.upgraded
    /\ input.id \notin pre.stopped
    /\ input.id \in DOMAIN connected

\* C7: the Event::Disconnected of Stopped(id, Some(error)) carries that error,
\* and the one of Stopped(id, None) carries the text "successfully
\* disconnected".
C7_DisconnectedReport ==
    input.tag = "Stopped" =>
        output = <<Event_Disconnected(input.id,
                     IF input.report.some
                     THEN input.report.val
                     ELSE Report_msg("successfully disconnected"))>>

\* C8: when Stopped(id, None) is processed directly after Stopped(id, None),
\* the second call leaves connected, upgraded and stopped as the first left
\* them and still returns one Event::Disconnected(id, _).
C8_StoppedIdempotent ==
    [][\A id \in Ids :
          (input = Stopped(id, None) /\ input' = Stopped(id, None)) =>
              /\ connected' = connected
              /\ upgraded' = upgraded
              /\ stopped' = stopped
              /\ Len(output') = 1
              /\ output'[1].kind = "Event"
              /\ output'[1].tag = "Disconnected"
              /\ output'[1].id = id]_vars

C8_Witness ==
    /\ hist.repeat
    /\ input.tag = "Stopped"
    /\ input.report = None
    /\ input.id \in stopped
    /\ Len(output) = 1

\* C9: UpgradeFailed(id, err) leaves id absent from connected, returns exactly
\* [Event::UpgradeFailed(id, err)], and changes neither stopped nor upgraded,
\* whether or not id was tracked.
C9_UpgradeFailed ==
    input.tag = "UpgradeFailed" =>
        /\ input.id \notin DOMAIN connected
        /\ output = <<Event_UpgradeFailed(input.id, input.err)>>
        /\ stopped = pre.stopped
        /\ upgraded = pre.upgraded

C9_Witness ==
    /\ input.tag = "UpgradeFailed"
    /\ input.id \in DOMAIN pre.connected
    /\ input.id \in upgraded
    /\ input.id \notin stopped

\* C10: Command::Disconnect(id) returns exactly [Internal::Stop(id)] and
\* changes no collection; a peer that was in upgraded when its
\* Command::Disconnect was processed stays in upgraded until a Stopped(id, _)
\* is processed, so every Command::Msg(id, payload) in between returns
\* [Internal::SendMessage(id, payload)].
C10_DisconnectKeepsPeer ==
    /\ (input.tag = "Command" /\ input.cmd = "Disconnect") =>
          /\ output = <<Internal_Stop(input.id)>>
          /\ Self = pre
    /\ hist.stopping \subseteq upgraded
    /\ (IsCommandMsg(input) /\ input.id \in hist.stopping) =>
          output = <<Internal_SendMessage(input.id, input.msg)>>

C10_Witness ==
    /\ IsCommandMsg(input)
    /\ input.id \in hist.stopping
    /\ output = <<Internal_SendMessage(input.id, input.msg)>>

\* the values a returned Vec<Output> is made of
Outputs ==
    {Event_Connected(id, dir) : id \in Ids, dir \in Directions}
    \cup {Event_Message(id, msg) : id \in Ids, msg \in Msgs}
    \cup {Event_Disconnected(id, r) :
            id \in Ids, r \in Reports \cup {Report_msg(DefaultDisconnectText)}}
    \cup {Event_Upgraded(id) : id \in Ids}
    \cup {Event_UpgradeFailed(id, err) : id \in Ids, err \in Reports}
    \cup {Internal_Accept}
    \cup {Internal_Connect(info) : info \in Infos}
    \cup {Internal_Stop(id) : id \in Ids}
    \cup {Internal_Upgrade(id) : id \in Ids}
    \cup {Internal_SendMessage(id, msg) : id \in Ids, msg \in Msgs}

ReturningTags ==
    {"Accepted", "Command", "Connected", "Receive", "Stopped", "Upgraded",
     "UpgradeFailed"}

\* C11: a call of transition aborts exactly when its input is
\* DuplicateConnRejected, and then produces no output and leaves the
\* collections alone; for every other input it returns a sequence of outputs
\* and a well-formed next state, and in every state that has not aborted each
\* of those inputs can be processed.
C11_TransitionTotal ==
    /\ panicked <=> input.tag = "DuplicateConnRejected"
    /\ panicked => (output = <<>> /\ Self = pre)
    /\ input.tag \in ReturningTags => (output \in Seq(Outputs) /\ TypeOK)
    /\ ~panicked =>
          /\ ENABLED DoAccepted
          /\ ENABLED DoConnected
          /\ ENABLED DoReceive
          /\ ENABLED DoStopped
          /\ ENABLED DoUpgraded
          /\ ENABLED DoUpgradeFailed
          /\ ENABLED DoCommandAccept
          /\ ENABLED DoCommandConnect
          /\ ENABLED DoCommandDisconnect
          /\ ENABLED DoCommandMsg

C11_Witness ==
    /\ panicked
    /\ input.tag = "DuplicateConnRejected"
    /\ output = <<>>
    /\ pre.upgraded # {}
    /\ pre.stopped # {}
    /\ DOMAIN pre.connected # {}

\* C12: Command::Accept, Command::Connect(peer_info) and Receive(id, msg)
\* change none of connected, upgraded and stopped and return exactly
\* [Internal::Accept], [Internal::Connect(peer_info)] and
\* [Event::Message(id, msg)], the last whatever collections id is in.
C12_PureOutputs ==
    /\ input = Command_Accept => (output = <<Internal_Accept>> /\ Self = pre)
    /\ (input.tag = "Command" /\ input.cmd = "Connect") =>
          (output = <<Internal_Connect(input.info)>> /\ Self = pre)
    /\ input.tag = "Receive" =>
          (output = <<Event_Message(input.id, input.msg)>> /\ Self = pre)

C12_Witness ==
    /\ input.tag = "Receive"
    /\ input.id \notin DOMAIN connected
    /\ input.id \notin upgraded
    /\ input.id \in stopped
    /\ output = <<Event_Message(input.id, input.msg)>>

\* C13 (as claimed): whenever a call adds id to upgraded, its input is
\* Upgraded(id) and id is a key of connected when the call starts.
C13_EntersUpgradedFromConnected ==
    \A id \in upgraded \ pre.upgraded :
        input = Upgraded(id) /\ id \in DOMAIN pre.connected

\* C13 (amended): whenever a call adds id to upgraded, its input is
\* Upgraded(id); id need not be a key of connected.
C13_EntersUpgradedByUpgraded ==
    \A id \in upgraded \ pre.upgraded : input = Upgraded(id)

C13_Witness ==
    \E id \in upgraded \ pre.upgraded :
        input = Upgraded(id) /\ id \notin DOMAIN pre.connected

\* C14 (as claimed): while id stays a key of connected, no call changes
\* connected[id] to the other Direction.
C14_DirectionNeverChanges ==
    \A id \in (DOMAIN pre.connected) \cap (DOMAIN connected) :
        connected[id] = pre.connected[id]

\* C14 (amended): while id stays a key of connected, connected[id] changes to
\* the other Direction only in a call with input Accepted(id), which makes it
\* Incoming, or Connected(id), which makes it Outgoing.
C14_DirectionChangesOnlyOnReconnect ==
    \A id \in (DOMAIN pre.connected) \cap (DOMAIN connected) :
        connected[id] # pre.connected[id] =>
            \/ input = Accepted(id) /\ connected[id] = "Incoming"
            \/ input = Connected(id) /\ connected[id] = "Outgoing"

C14_Witness ==
    \E id \in (DOMAIN pre.connected) \cap (DOMAIN connected) :
        /\ pre.connected[id] = "Incoming"
        /\ connected[id] = "Outgoing"
        /\ input = Connected(id)

SendsTo(id) ==
    \E i \in 1..Len(output) : IsSendMessage(output[i]) /\ output[i].id = id

\* C15 (as claimed): once Stopped(id, _) has been processed, id is never again
\* a member of upgraded and no Internal::SendMessage(id, _) is returned.
C15_StoppedIsTerminal ==
    \A id \in hist.everStopped : id \notin upgraded /\ ~SendsTo(id)

\* C15 (amended): once Stopped(id, _) has been processed, id stays in stopped
\* for good, and id is not a member of upgraded and no
\* Internal::SendMessage(id, _) is returned unless an Upgraded(id) input has
\* been processed after the latest Stopped(id, _).
C15_StoppedUntilUpgradedAgain ==
    \A id \in hist.everStopped :
        /\ id \in stopped
        /\ id \notin hist.live => (id \notin upgraded /\ ~SendsTo(id))

C15_Witness ==
    \E id \in hist.everStopped :
        /\ id \in stopped
        /\ id \in hist.live
        /\ id \in upgraded
        /\ SendsTo(id)

\* C16: no call removes an id from stopped, and a call adds id to stopped
\* only when its input is Stopped(id, _).
C16_StoppedAppendOnly ==
    /\ pre.stopped \subseteq stopped
    /\ \A id \in stopped \ pre.stopped :
          input.tag = "Stopped" /\ input.id = id

C16_Witness ==
    /\ input.tag = "Upgraded"
    /\ input.id \in pre.stopped
    /\ input.id \in stopped
    /\ input.id \in upgraded

\* C17: Upgraded(id) leaves id in upgraded, returns exactly
\* [Event::Upgraded(id)] and changes neither connected nor stopped, whatever
\* collections id is in; a Command::Msg(id, payload) processed right after it
\* returns [Internal::SendMessage(id, payload)].
C17_Upgraded ==
    [][/\ input'.tag = "Upgraded" =>
            /\ input'.id \in upgraded'
            /\ output' = <<Event_Upgraded(input'.id)>>
            /\ connected' = connected
            /\ stopped' = stopped
       /\ (input.tag = "Upgraded" /\ IsCommandMsg(input')
              /\ input'.id = input.id) =>
            output' = <<Internal_SendMessage(input'.id, input'.msg)>>]_vars

C17_Witness ==
    /\ input.tag = "Upgraded"
    /\ input.id \notin DOMAIN connected
    /\ input.id \in stopped
    /\ input.id \notin pre.upgraded
    /\ output = <<Event_Upgraded(input.id)>>

\* C18: a call removes id from upgraded only when its input is
\* Stopped(id, _); in particular an id in upgraded stays there across
\* UpgradeFailed(id, _), Accepted(id) and Connected(id).
C18_LeavesUpgradedByStopped ==
    \A id \in pre.upgraded \ upgraded :
        input.tag = "Stopped" /\ input.id = id

C18_Witness ==
    /\ input.tag \in {"Accepted", "Connected"}
    /\ input.id \in DOMAIN pre.connected
    /\ input.id \in pre.upgraded
    /\ input.id \in upgraded

\* C19: a call adds id to the keys of connected only when its input is
\* Accepted(id) or Connected(id) and removes it only when its input is
\* UpgradeFailed(id, _); so every id accepted or dialed with no upgrade
\* failure since is a key of connected, also after Stopped(id, _).
C19_ConnectedMembership ==
    /\ \A id \in (DOMAIN connected) \ (DOMAIN pre.connected) :
          input = Accepted(id) \/ input = Connected(id)
    /\ \A id \in (DOMAIN pre.connected) \ (DOMAIN connected) :
          input.tag = "UpgradeFailed" /\ input.id = id
    /\ hist.tracked \subseteq DOMAIN connected

C19_Witness ==
    /\ input.tag = "Stopped"
    /\ input.id \in hist.tracked
    /\ input.id \in DOMAIN connected
    /\ input.id \in stopped

\* the part of a Protocol that is about the peers of a set
Restrict(self, ids) ==
    [connected |-> [x \in (DOMAIN self.connected) \cap ids |-> self.connected[x]],
     stopped |-> self.stopped \cap ids,
     upgraded |-> self.upgraded \cap ids]

\* the inputs that name a peer and for which transition returns
PeerInputs(id) ==
    {Accepted(id), Connected(id), Upgraded(id), Command_Disconnect(id)}
    \cup {Receive(id, msg) : msg \in Msgs}
    \cup {Stopped(id, report) : report \in OptReports}
    \cup {UpgradeFailed(id, err) : err \in Reports}
    \cup {Command_Msg(id, msg) : msg \in Msgs}

\* C20: a call whose input names peer id changes the membership and the
\* direction of no other peer in connected, upgraded and stopped, and every
\* output it returns names id.  In every reachable state the outputs of such a
\* call and what it does to id are determined by the part of the state that
\* is about id alone, so what is returned for one peer does not depend on the
\* inputs processed about the others.
C20_PeerIndependence ==
    /\ \A id \in Ids : input \in PeerInputs(id) =>
          /\ Restrict(Self, Ids \ {id}) = Restrict(pre, Ids \ {id})
          /\ \A i \in 1..Len(output) : output[i].id = id
    /\ ~panicked => \A id \in Ids : \A in \in PeerInputs(id) :
          LET whole == transition(Self, in)
              alone == transition(Restrict(Self, {id}), in)
          IN  /\ whole.out = alone.out
              /\ Restrict(whole.self, {id}) = alone.self
              /\ Restrict(whole.self, Ids \ {id}) = Restrict(Self, Ids \ {id})

C20_Witness ==
    \E id \in Ids : \E other \in Ids \ {id} :
        /\ input.tag = "Stopped"
        /\ input.id = id
        /\ id \in pre.upgraded
        /\ other \in upgraded
        /\ other \in DOMAIN connected
        /\ other \notin stopped

====
